---- MODULE Spec2Model ----
(***************************************************************************)
(* Model of cmd/skopeo/copy.go: the "copy" command of skopeo.              *)
(*                                                                         *)
(* One invocation of copyOptions.run is modelled as a sequential process   *)
(* whose position is pc.  The command line (positional arguments and the   *)
(* flags bound to copyOptions) is chosen in Init; the outcomes of the      *)
(* collaborators whose result does not depend on the modelled input        *)
(* (trust policy loading, context building, the copy engine) are chosen    *)
(* nondeterministically at the step that calls them.  `calls' is the       *)
(* sequence of collaborator calls performed so far, in program order.      *)
(***************************************************************************)
EXTENDS Integers, Sequences, FiniteSets, TLC

(* ---------------- bounds of the model ---------------- *)
MaxArgs == 3
MaxTags == 2

(* ---------------- values the command line is drawn from ---------------- *)
ImageNames == {"docker://busybox", "dir:/tmp/img", "busybox"}
TagNames == {"busybox:latest", "busybox", "BUSYBOX:latest"}
FormatValues == {"", "oci", "v2s1", "v2s2", "OCI", "v2s3"}
Fingerprints == {"", "1D8230F6CDB6A06716E414C1DB72F2188BB46CC8"}

SeqsUpTo(S, n) == UNION {[1..k -> S] : k \in 0..n}

(* ---------------- media types of the wrapped libraries ---------------- *)
MediaTypeImageManifest == "application/vnd.oci.image.manifest.v1+json"
DockerV2Schema1SignedMediaType == "application/vnd.docker.distribution.manifest.v1+prettyjws"
DockerV2Schema2MediaType == "application/vnd.docker.distribution.manifest.v2+json"

(* ---------------- errors ---------------- *)
\* A Go error value: the format string, its %s / %q argument, and its %v cause.
Err(m, a, c) == [msg |-> m, arg |-> a, cause |-> c]
NoErr == Err("nil", "", "")

ArgsErr == Err("Exactly two arguments expected", "", "")
PolicyErr(cause) == Err("Error loading trust policy: %v", "", cause)
SrcNameErr(name, cause) == Err("Invalid source name %s: %v", name, cause)
DestNameErr(name, cause) == Err("Invalid destination name %s: %v", name, cause)
FormatErr(value) ==
    Err("unknown format %q. Choose one of the supported formats: 'oci', 'v2s1', or 'v2s2'", value, "")
TagParseErr(image, cause) == Err("error parsing additional-tag '%s': %v", image, cause)
TagNotTaggedErr(image) == Err("additional-tag '%s' must be a tagged reference", image, "")

\* Errors the collaborators may hand back.
PolicyFailures == {"open policy.json: no such file or directory"}
ContextFailures == {"credentials not in the correct format"}
EngineErrors == {Err("Source image rejected: policy", "", ""),
                 Err("Error writing manifest", "", "")}

(* ---------------- image references ---------------- *)
NoRef == [transport |-> "", details |-> "", err |-> ""]

\* alltransports.ParseImageName: "transport:details", transport must be known.
ParseImageName(name) ==
    CASE name = "docker://busybox" ->
            [transport |-> "docker", details |-> "//busybox", err |-> ""]
      [] name = "dir:/tmp/img" ->
            [transport |-> "dir", details |-> "/tmp/img", err |-> ""]
      [] OTHER ->
            [transport |-> "", details |-> "",
             err |-> "Invalid image name, expected colon-separated transport:reference"]

\* reference.ParseNormalizedNamed followed by the NamedTagged type assertion.
ParseNormalizedNamed(image) ==
    CASE image = "busybox:latest" ->
            [name |-> "docker.io/library/busybox", tag |-> "latest", err |-> ""]
      [] image = "busybox" ->
            [name |-> "docker.io/library/busybox", tag |-> "", err |-> ""]
      [] OTHER ->
            [name |-> "", tag |-> "", err |-> "invalid reference format: repository name must be lowercase"]

isNamedTagged(ref) == ref.tag # ""

(* ---------------- state ---------------- *)
VARIABLES
    args,            \* c.Args()
    opts,            \* copyOptions, as filled in by the flag parser
    pc,              \* position of run
    calls,           \* collaborator calls made so far
    policyContext,   \* "unset" | "loaded" | "destroyed"
    cancelled,       \* the deferred cancel() has run
    srcRef, destRef, \* parsed references
    heap,            \* allocated types.SystemContext objects
    sourceCtx,       \* address in heap, 0 = nil
    destinationCtx,  \* address in heap, 0 = nil
    manifestType,    \* local variable of run
    tagIdx,          \* loop index over opts.additionalTags
    image,           \* arguments copy.Image was called with
    engineErr,       \* what copy.Image returned
    ret              \* what run returned

vars == <<args, opts, pc, calls, policyContext, cancelled, srcRef, destRef, heap,
          sourceCtx, destinationCtx, manifestType, tagIdx, image, engineErr, ret>>

NoImage == [destRef |-> NoRef, srcRef |-> NoRef, RemoveSignatures |-> FALSE,
            SignBy |-> "", SourceCtx |-> 0, DestinationCtx |-> 0,
            ForceManifestMIMEType |-> "", policy |-> "unset"]

\* optionalString: value is only ever set together with present.
optionalString == {[present |-> FALSE, value |-> ""]}
                  \cup {[present |-> TRUE, value |-> v] : v \in FormatValues}

copyOptions == [additionalTags : SeqsUpTo(TagNames, MaxTags),
                removeSignatures : BOOLEAN,
                signByFingerprint : Fingerprints,
                format : optionalString]

Init ==
    /\ args \in SeqsUpTo(ImageNames, MaxArgs)
    /\ opts \in copyOptions
    /\ pc = "args"
    /\ calls = <<>>
    /\ policyContext = "unset"
    /\ cancelled = FALSE
    /\ srcRef = NoRef
    /\ destRef = NoRef
    /\ heap = <<>>
    /\ sourceCtx = 0
    /\ destinationCtx = 0
    /\ manifestType = ""
    /\ tagIdx = 1
    /\ image = NoImage
    /\ engineErr = NoErr
    /\ ret = NoErr

\* return e, running the deferred policyContext.Destroy() and cancel().
Return(e, policy, hasCancel) ==
    /\ pc' = "done"
    /\ ret' = e
    /\ policyContext' = IF policy = "loaded" THEN "destroyed" ELSE policy
    /\ cancelled' = hasCancel

\* contextFromGlobalOptions(c, prefix): a fresh SystemContext built from the
\* flags carrying that prefix.
contextFromGlobalOptions(prefix) ==
    [prefix |-> prefix, DockerArchiveAdditionalTags |-> <<>>]

(* ---------------- the steps of run ---------------- *)
CheckArgsLt ==
    /\ pc = "args"
    /\ IF Len(args) < 2
       THEN /\ calls' = Append(calls, "cli.ShowCommandHelp")
            /\ Return(ArgsErr, policyContext, FALSE)
       ELSE /\ pc' = "policy"
            /\ UNCHANGED <<calls, ret, policyContext, cancelled>>
    /\ UNCHANGED <<args, opts, srcRef, destRef, heap, sourceCtx, destinationCtx,
                   manifestType, tagIdx, image, engineErr>>

CheckArgs ==
    /\ pc = "args"
    /\ IF Len(args) # 2
       THEN /\ calls' = Append(calls, "cli.ShowCommandHelp")
            /\ Return(ArgsErr, policyContext, FALSE)
       ELSE /\ pc' = "policy"
            /\ UNCHANGED <<calls, ret, policyContext, cancelled>>
    /\ UNCHANGED <<args, opts, srcRef, destRef, heap, sourceCtx, destinationCtx,
                   manifestType, tagIdx, image, engineErr>>

GetPolicyContext ==
    /\ pc = "policy"
    /\ calls' = Append(calls, "getPolicyContext")
    /\ \/ /\ policyContext' = "loaded"
          /\ pc' = "src"
          /\ UNCHANGED <<ret, cancelled>>
       \/ \E cause \in PolicyFailures :
             Return(PolicyErr(cause), "unset", FALSE)
    /\ UNCHANGED <<args, opts, srcRef, destRef, heap, sourceCtx, destinationCtx,
                   manifestType, tagIdx, image, engineErr>>

\* A Go slice index: in range here because Len(args) = 2 past the first step.
Arg(i) == IF i < Len(args) THEN args[i + 1] ELSE ""

ParseSource ==
    /\ pc = "src"
    /\ calls' = Append(calls, "alltransports.ParseImageName")
    /\ LET r == ParseImageName(Arg(0)) IN
       IF r.err # ""
       THEN /\ Return(SrcNameErr(Arg(0), r.err), policyContext, FALSE)
            /\ UNCHANGED srcRef
       ELSE /\ srcRef' = r
            /\ pc' = "dest"
            /\ UNCHANGED <<ret, policyContext, cancelled>>
    /\ UNCHANGED <<args, opts, destRef, heap, sourceCtx, destinationCtx,
                   manifestType, tagIdx, image, engineErr>>

ParseDestination ==
    /\ pc = "dest"
    /\ calls' = Append(calls, "alltransports.ParseImageName")
    /\ LET r == ParseImageName(Arg(1)) IN
       IF r.err # ""
       THEN /\ Return(DestNameErr(Arg(1), r.err), policyContext, FALSE)
            /\ UNCHANGED destRef
       ELSE /\ destRef' = r
            /\ pc' = "srcctx"
            /\ UNCHANGED <<ret, policyContext, cancelled>>
    /\ UNCHANGED <<args, opts, srcRef, heap, sourceCtx, destinationCtx,
                   manifestType, tagIdx, image, engineErr>>

\* contextsFromGlobalOptions, first half: the "src-" context.
BuildSourceCtx ==
    /\ pc = "srcctx"
    /\ calls' = Append(calls, "contextFromGlobalOptions(src-)")
    /\ \/ /\ heap' = Append(heap, contextFromGlobalOptions("src-"))
          /\ sourceCtx' = Len(heap) + 1
          /\ pc' = "destctx"
          /\ UNCHANGED <<ret, policyContext, cancelled>>
       \/ \E cause \in ContextFailures :
             /\ Return(Err(cause, "", ""), policyContext, FALSE)
             /\ UNCHANGED <<heap, sourceCtx>>
    /\ UNCHANGED <<args, opts, srcRef, destRef, destinationCtx,
                   manifestType, tagIdx, image, engineErr>>

\* contextsFromGlobalOptions, second half: the "dest-" context.  On failure
\* both results are nil.
BuildDestinationCtx ==
    /\ pc = "destctx"
    /\ calls' = Append(calls, "contextFromGlobalOptions(dest-)")
    /\ \/ /\ heap' = Append(heap, contextFromGlobalOptions("dest-"))
          /\ destinationCtx' = Len(heap) + 1
          /\ pc' = "format"
          /\ UNCHANGED <<ret, policyContext, cancelled, sourceCtx>>
       \/ \E cause \in ContextFailures :
             /\ Return(Err(cause, "", ""), policyContext, FALSE)
             /\ sourceCtx' = 0
             /\ UNCHANGED <<heap, destinationCtx>>
    /\ UNCHANGED <<args, opts, srcRef, destRef,
                   manifestType, tagIdx, image, engineErr>>

\* The switch on opts.format.value: whether the value is a known format and
\* the manifest type it selects.
formatSwitchSwapped(value) ==
    CASE value = "oci"  -> [known |-> TRUE, manifestType |-> MediaTypeImageManifest]
      [] value = "v2s1" -> [known |-> TRUE, manifestType |-> DockerV2Schema2MediaType]
      [] value = "v2s2" -> [known |-> TRUE, manifestType |-> DockerV2Schema1SignedMediaType]
      [] OTHER          -> [known |-> FALSE, manifestType |-> ""]

formatSwitchFold(value) ==
    CASE value \in {"oci", "OCI"} -> [known |-> TRUE, manifestType |-> MediaTypeImageManifest]
      [] value = "v2s1" -> [known |-> TRUE, manifestType |-> DockerV2Schema1SignedMediaType]
      [] value = "v2s2" -> [known |-> TRUE, manifestType |-> DockerV2Schema2MediaType]
      [] OTHER          -> [known |-> FALSE, manifestType |-> ""]

formatSwitch(value) ==
    CASE value = "oci"  -> [known |-> TRUE, manifestType |-> MediaTypeImageManifest]
      [] value = "v2s1" -> [known |-> TRUE, manifestType |-> DockerV2Schema1SignedMediaType]
      [] value = "v2s2" -> [known |-> TRUE, manifestType |-> DockerV2Schema2MediaType]
      [] OTHER          -> [known |-> FALSE, manifestType |-> ""]

SelectFormat ==
    /\ pc = "format"
    /\ IF opts.format.present
       THEN LET sw == formatSwitch(opts.format.value) IN
            IF sw.known
            THEN /\ manifestType' = sw.manifestType
                 /\ pc' = "tags"
                 /\ UNCHANGED <<ret, policyContext, cancelled>>
            ELSE /\ Return(FormatErr(opts.format.value), policyContext, FALSE)
                 /\ UNCHANGED manifestType
       ELSE /\ pc' = "tags"
            /\ UNCHANGED <<manifestType, ret, policyContext, cancelled>>
    /\ UNCHANGED <<args, opts, calls, srcRef, destRef, heap, sourceCtx,
                   destinationCtx, tagIdx, image, engineErr>>

\* destinationCtx.DockerArchiveAdditionalTags = append(..., namedTagged)
AppendTag(h, addr, ref) ==
    [h EXCEPT ![addr].DockerArchiveAdditionalTags = Append(@, ref)]

\* One iteration of the loop over opts.additionalTags, or its exit.
AdditionalTagUnchecked ==
    /\ pc = "tags"
    /\ IF tagIdx <= Len(opts.additionalTags)
       THEN LET img == opts.additionalTags[tagIdx]
                ref == ParseNormalizedNamed(img)
            IN  /\ calls' = Append(calls, "reference.ParseNormalizedNamed")
                /\ IF ref.err # ""
                   THEN /\ Return(TagParseErr(img, ref.err), policyContext, FALSE)
                        /\ UNCHANGED <<heap, tagIdx>>
                   ELSE /\ heap' = AppendTag(heap, destinationCtx, ref)
                        /\ tagIdx' = tagIdx + 1
                        /\ UNCHANGED <<pc, ret, policyContext, cancelled>>
       ELSE /\ pc' = "timeout"
            /\ UNCHANGED <<calls, heap, tagIdx, ret, policyContext, cancelled>>
    /\ UNCHANGED <<args, opts, srcRef, destRef, sourceCtx, destinationCtx,
                   manifestType, image, engineErr>>

AdditionalTag ==
    /\ pc = "tags"
    /\ IF tagIdx <= Len(opts.additionalTags)
       THEN LET img == opts.additionalTags[tagIdx]
                ref == ParseNormalizedNamed(img)
            IN  /\ calls' = Append(calls, "reference.ParseNormalizedNamed")
                /\ IF ref.err # ""
                   THEN /\ Return(TagParseErr(img, ref.err), policyContext, FALSE)
                        /\ UNCHANGED <<heap, tagIdx>>
                   ELSE IF ~isNamedTagged(ref)
                   THEN /\ Return(TagNotTaggedErr(img), policyContext, FALSE)
                        /\ UNCHANGED <<heap, tagIdx>>
                   ELSE /\ heap' = AppendTag(heap, destinationCtx, ref)
                        /\ tagIdx' = tagIdx + 1
                        /\ UNCHANGED <<pc, ret, policyContext, cancelled>>
       ELSE /\ pc' = "timeout"
            /\ UNCHANGED <<calls, heap, tagIdx, ret, policyContext, cancelled>>
    /\ UNCHANGED <<args, opts, srcRef, destRef, sourceCtx, destinationCtx,
                   manifestType, image, engineErr>>

\* ctx, cancel := commandTimeoutContextFromGlobalOptions(c)
CommandTimeoutContext ==
    /\ pc = "timeout"
    /\ calls' = Append(calls, "commandTimeoutContextFromGlobalOptions")
    /\ pc' = "copy"
    /\ UNCHANGED <<args, opts, policyContext, cancelled, srcRef, destRef, heap,
                   sourceCtx, destinationCtx, manifestType, tagIdx, image,
                   engineErr, ret>>

\* The arguments of copy.Image(ctx, policyContext, destRef, srcRef, &copy.Options{...}).
imageArgsSwapped ==
    [destRef |-> srcRef, srcRef |-> destRef,
     RemoveSignatures |-> opts.removeSignatures,
     SignBy |-> opts.signByFingerprint,
     SourceCtx |-> sourceCtx,
     DestinationCtx |-> destinationCtx,
     ForceManifestMIMEType |-> manifestType,
     policy |-> policyContext]

imageArgs ==
    [destRef |-> destRef, srcRef |-> srcRef,
     RemoveSignatures |-> opts.removeSignatures,
     SignBy |-> opts.signByFingerprint,
     SourceCtx |-> sourceCtx,
     DestinationCtx |-> destinationCtx,
     ForceManifestMIMEType |-> manifestType,
     policy |-> policyContext]

\* _, err = copy.Image(...); return err
CopyImage ==
    /\ pc = "copy"
    /\ calls' = Append(calls, "copy.Image")
    /\ image' = imageArgs
    /\ \E e \in {NoErr} \cup EngineErrors :
          /\ engineErr' = e
          /\ Return(e, policyContext, TRUE)
    /\ UNCHANGED <<args, opts, srcRef, destRef, heap, sourceCtx, destinationCtx,
                   manifestType, tagIdx>>

Next ==
    \/ CheckArgs
    \/ GetPolicyContext
    \/ ParseSource
    \/ ParseDestination
    \/ BuildSourceCtx
    \/ BuildDestinationCtx
    \/ SelectFormat
    \/ AdditionalTag
    \/ CommandTimeoutContext
    \/ CopyImage

Spec == Init /\ [][Next]_vars

(* ---------------- properties ---------------- *)
NumImageCalls == Cardinality({i \in DOMAIN calls : calls[i] = "copy.Image"})

SupportedFormats == {"oci", "v2s1", "v2s2"}

FormatAccepted == opts.format.present => opts.format.value \in SupportedFormats

TagsAccepted ==
    \A i \in DOMAIN opts.additionalTags :
        LET ref == ParseNormalizedNamed(opts.additionalTags[i])
        IN  ref.err = "" /\ ref.tag # ""

\* Everything run does before the format switch has succeeded.
ReachedFormat ==
    /\ Len(args) = 2
    /\ policyContext # "unset"
    /\ srcRef # NoRef
    /\ destRef # NoRef
    /\ sourceCtx # 0
    /\ destinationCtx # 0

AllStepsSucceeded ==
    /\ ReachedFormat
    /\ ParseImageName(args[1]).err = ""
    /\ ParseImageName(args[2]).err = ""
    /\ FormatAccepted
    /\ TagsAccepted

\* C1: copy.Image is invoked at most once, and only after every preceding
\* step of run succeeded (two arguments, policy loaded, both names parsed,
\* both contexts built, format supported, every additional tag a tagged
\* reference); when a step fails, run ends without invoking copy.Image and
\* with a non-nil error.
EngineOnlyAfterValidation ==
    /\ NumImageCalls <= 1
    /\ NumImageCalls = 1 => AllStepsSucceeded /\ image.policy = "loaded"
    /\ (pc = "done" /\ ~AllStepsSucceeded) => (NumImageCalls = 0 /\ ret # NoErr)

EngineInvokedOnce ==
    /\ pc = "done"
    /\ NumImageCalls = 1
    /\ Len(opts.additionalTags) = 2
    /\ opts.format.present

\* C2: with any number of positional arguments other than two, run shows
\* the command help and returns "Exactly two arguments expected" before
\* any other collaborator is called; with two arguments that error is
\* never returned.
WrongArgCountRejectedFirst ==
    /\ Len(args) # 2 => pc \in {"args", "done"}
    /\ (pc = "done" /\ Len(args) # 2) =>
          /\ ret = ArgsErr
          /\ calls = <<"cli.ShowCommandHelp">>
          /\ policyContext = "unset"
          /\ srcRef = NoRef /\ destRef = NoRef
          /\ heap = <<>> /\ sourceCtx = 0 /\ destinationCtx = 0
          /\ image = NoImage
    /\ Len(args) = 2 => (ret # ArgsErr /\ calls # <<"cli.ShowCommandHelp">>)

ThreeArgsRejected ==
    /\ pc = "done"
    /\ Len(args) = 3
    /\ ret = ArgsErr

\* C3: the manifest type handed to copy.Image depends on the --format flag
\* alone: empty when the flag is absent, the OCI manifest type for "oci",
\* Docker schema 1 signed for "v2s1", Docker schema 2 for "v2s2"; the three
\* types are non-empty and pairwise distinct.
ForcedManifestTypeFollowsFormat ==
    /\ NumImageCalls = 1 =>
          image.ForceManifestMIMEType =
             IF ~opts.format.present THEN ""
             ELSE CASE opts.format.value = "oci" ->
                          "application/vnd.oci.image.manifest.v1+json"
                    [] opts.format.value = "v2s1" ->
                          "application/vnd.docker.distribution.manifest.v1+prettyjws"
                    [] opts.format.value = "v2s2" ->
                          "application/vnd.docker.distribution.manifest.v2+json"
                    [] OTHER -> "unreachable"
    /\ Cardinality({formatSwitch(f).manifestType : f \in SupportedFormats}) = 3
    /\ \A f \in SupportedFormats : formatSwitch(f).manifestType # ""

Schema1Forced ==
    /\ NumImageCalls = 1
    /\ opts.format.present
    /\ opts.format.value = "v2s1"
    /\ image.ForceManifestMIMEType = DockerV2Schema1SignedMediaType

FormatRejected ==
    /\ ret.msg = FormatErr("").msg
    /\ ret.arg = opts.format.value

\* C4 as stated: whenever the flag is present with an unsupported value, run
\* returns the "unknown format" error.
UnknownFormatAlwaysReported ==
    (pc = "done" /\ opts.format.present /\ opts.format.value \notin SupportedFormats)
        => FormatRejected

\* C4, amended: when the flag is present with an unsupported value and the
\* steps before the format switch succeeded, run returns the "unknown
\* format" error naming the three supported formats; in no case is
\* copy.Image invoked with an unsupported format, and no format is
\* rejected when the flag is absent.
UnknownFormatReportedWhenReached ==
    /\ (pc = "done" /\ ReachedFormat /\ opts.format.present
          /\ opts.format.value \notin SupportedFormats)
        => (ret = FormatErr(opts.format.value) /\ NumImageCalls = 0)
    /\ (opts.format.present /\ opts.format.value \notin SupportedFormats)
        => NumImageCalls = 0
    /\ ~opts.format.present => ret.msg # FormatErr("").msg
    /\ (opts.format.present /\ opts.format.value \in SupportedFormats)
        => ret.msg # FormatErr("").msg

MiscasedFormatRejected ==
    /\ pc = "done"
    /\ opts.format.present
    /\ opts.format.value = "OCI"
    /\ ret = FormatErr("OCI")

\* The references reference.ParseNormalizedNamed yields for the tags, in order.
NormalizedTags ==
    [i \in DOMAIN opts.additionalTags |-> ParseNormalizedNamed(opts.additionalTags[i])]

\* C5: when every validation step succeeds run calls copy.Image with the
\* first argument as source and the second as destination, with
\* RemoveSignatures and SignBy as given by the flags, with the "src-"
\* context as SourceCtx and the "dest-" context as DestinationCtx, and
\* returns exactly the error copy.Image returned.
ChoicesForwardedUnchanged ==
    /\ (pc = "done" /\ AllStepsSucceeded) => NumImageCalls = 1
    /\ NumImageCalls = 1 =>
          /\ image.srcRef = ParseImageName(args[1])
          /\ image.destRef = ParseImageName(args[2])
          /\ image.RemoveSignatures = opts.removeSignatures
          /\ image.SignBy = opts.signByFingerprint
          /\ image.SourceCtx \in DOMAIN heap
          /\ image.DestinationCtx \in DOMAIN heap
          /\ image.SourceCtx # image.DestinationCtx
          /\ heap[image.SourceCtx] = contextFromGlobalOptions("src-")
          /\ heap[image.DestinationCtx].prefix = "dest-"
          /\ heap[image.DestinationCtx].DockerArchiveAdditionalTags = NormalizedTags
          /\ pc = "done"
          /\ ret = engineErr
          /\ (ret = NoErr) <=> (engineErr = NoErr)

EngineErrorReturned ==
    /\ NumImageCalls = 1
    /\ args[1] # args[2]
    /\ opts.removeSignatures
    /\ opts.signByFingerprint # ""
    /\ engineErr # NoErr
    /\ ret = engineErr

====
